---- MODULE Spec2Model ----
(***************************************************************************)
(* Model of the slimescript lexer (src/src/main2.rs).                      *)
(*                                                                         *)
(* A character is a one-character string; the input (Vec<char>) and every  *)
(* token value (String) are sequences of characters.  Option<char> is a    *)
(* sequence of length 0 (None) or 1 (Some).  The Lexer's mutable fields    *)
(* position, line, column are carried through the helper operators as a    *)
(* record s = [position, line, column]; the variables hold the same fields *)
(* between two calls of next_token.  stdout and stderr are the lines main   *)
(* has written; exit_code is None while the process runs and Some(code)    *)
(* once main has returned.  frame is the place of control inside          *)
(* next_token with the locals of the reader that runs, for the behaviours  *)
(* that take the lexer one loop turn at a time.                            *)
(***************************************************************************)
EXTENDS Integers, Sequences, FiniteSets, TLC

VARIABLES input, position, line, column, tokens, result, history,
          stdout, stderr, exit_code, frame

vars == <<input, position, line, column, tokens, result, history,
          stdout, stderr, exit_code, frame>>

(***************************************************************************)
(* Bounds of the model.                                                    *)
(***************************************************************************)
\* longest input enumerated exhaustively over Alphabet
MaxLen == 4
\* most fragments of Fragments concatenated into one input
MaxFrags == 2
\* most calls of next_token a direct caller makes that leave the cursor
\* where it was
MaxRepeat == 2

(***************************************************************************)
(* Character classes.                                                      *)
(***************************************************************************)
LowerLetters ==
  {"a","b","c","d","e","f","g","h","i","j","k","l","m",
   "n","o","p","q","r","s","t","u","v","w","x","y","z"}

UpperLetters ==
  {"A","B","C","D","E","F","G","H","I","J","K","L","M",
   "N","O","P","Q","R","S","T","U","V","W","X","Y","Z"}

AsciiDigits == {"0","1","2","3","4","5","6","7","8","9"}

\* characters outside ASCII that char::is_alphanumeric accepts (the ones
\* the inputs of this model use)
NonAsciiAlphanumeric == {"é"}

\* char::is_whitespace (the White_Space characters the inputs use)
is_whitespace(ch) == ch \in {" ", "\t", "\n", "\r"}

\* char::is_ascii_digit
is_ascii_digit(ch) == ch \in AsciiDigits

\* char::is_alphanumeric: Unicode Alphabetic or Numeric, not ASCII only
is_alphanumeric(ch) ==
  ch \in LowerLetters \cup UpperLetters \cup AsciiDigits \cup NonAsciiAlphanumeric

(***************************************************************************)
(* Token, Result and Option.                                               *)
(***************************************************************************)
None == <<>>
Some(ch) == <<ch>>

Token(tt, v, l, c) == [token_type |-> tt, value |-> v, line |-> l, column |-> c]

Ok(t) == [ok |-> TRUE, token |-> t]
Err(e) == [ok |-> FALSE, error |-> e]

\* the keyword table with the entry of "return" lost
keywords_mut ==
  { <<<<"l","e","t">>, "Let">>,
    <<<<"p","r","i","n","t">>, "Print">>,
    <<<<"i","f">>, "If">>,
    <<<<"e","l","s","e">>, "Else">>,
    <<<<"w","h","i","l","e">>, "While">>,
    <<<<"f","o","r">>, "For">>,
    <<<<"f","u","n","c","t","i","o","n">>, "Function">>,
    <<<<"r","e","t","u","r","n">>, "Identifier">> }

\* Lexer::new: the keyword table, as the set of its (lexeme, kind) entries
keywords ==
  { <<<<"l","e","t">>, "Let">>,
    <<<<"p","r","i","n","t">>, "Print">>,
    <<<<"i","f">>, "If">>,
    <<<<"e","l","s","e">>, "Else">>,
    <<<<"w","h","i","l","e">>, "While">>,
    <<<<"f","o","r">>, "For">>,
    <<<<"f","u","n","c","t","i","o","n">>, "Function">>,
    <<<<"r","e","t","u","r","n">>, "Return">> }

\* self.keywords.get(&identifier).cloned().unwrap_or(TokenType::Identifier)
keywords_get_or_identifier(identifier) ==
  IF \E e \in keywords : e[1] = identifier
  THEN (CHOOSE e \in keywords : e[1] = identifier)[2]
  ELSE "Identifier"

(***************************************************************************)
(* Cursor primitives.                                                      *)
(***************************************************************************)
\* self.input.get(self.position).copied()
current_char(s) ==
  IF s.position < Len(input) THEN Some(input[s.position + 1]) ELSE None

\* self.input.get(self.position + 1).copied()
peek_char(s) ==
  IF s.position + 1 < Len(input) THEN Some(input[s.position + 2]) ELSE None

\* advance without the column reset at a line feed
advance_mut(s) ==
  LET cur == current_char(s) IN
  [position |-> s.position + 1,
   line     |-> IF cur # None /\ cur[1] = "\n" THEN s.line + 1 ELSE s.line,
   column   |-> IF cur = None THEN s.column ELSE s.column + 1]

\* Lexer::advance
advance(s) ==
  LET cur == current_char(s) IN
  [position |-> s.position + 1,
   line     |-> IF cur # None /\ cur[1] = "\n" THEN s.line + 1 ELSE s.line,
   column   |-> IF cur = None THEN s.column
                ELSE IF cur[1] = "\n" THEN 1 ELSE s.column + 1]

\* skip_whitespace advancing once more when no character is left
RECURSIVE skip_whitespace_mut(_)
skip_whitespace_mut(s) ==
  LET cur == current_char(s) IN
  IF cur = None THEN advance(s)
  ELSE IF is_whitespace(cur[1])
  THEN skip_whitespace_mut(advance(s))
  ELSE s

RECURSIVE skip_whitespace(_)
skip_whitespace(s) ==
  LET cur == current_char(s) IN
  IF cur # None /\ is_whitespace(cur[1])
  THEN skip_whitespace(advance(s))
  ELSE s

(***************************************************************************)
(* Literal readers.  Each returns the cursor it leaves and its result.     *)
(***************************************************************************)
\* the loop of read_number stopping at a dot
RECURSIVE read_number_loop_mut(_, _)
read_number_loop_mut(s, number) ==
  LET cur == current_char(s) IN
  IF cur # None /\ is_ascii_digit(cur[1])
  THEN read_number_loop_mut(advance(s), Append(number, cur[1]))
  ELSE [s |-> s, number |-> number]

\* the while loop of read_number
RECURSIVE read_number_loop(_, _)
read_number_loop(s, number) ==
  LET cur == current_char(s) IN
  IF cur # None /\ (is_ascii_digit(cur[1]) \/ cur[1] = ".")
  THEN read_number_loop(advance(s), Append(number, cur[1]))
  ELSE [s |-> s, number |-> number]

read_number(s) ==
  LET r == read_number_loop(s, <<>>) IN
  [s |-> r.s, token |-> Token("Number", r.number, s.line, s.column)]

RECURSIVE read_identifier_loop(_, _)
read_identifier_loop(s, identifier) ==
  LET cur == current_char(s) IN
  IF cur # None /\ (is_alphanumeric(cur[1]) \/ cur[1] = "_")
  THEN read_identifier_loop(advance(s), Append(identifier, cur[1]))
  ELSE [s |-> s, identifier |-> identifier]

\* read_identifier losing the first character of the lexeme
read_identifier_mut(s) ==
  LET r == read_identifier_loop(s, <<>>) IN
  [s |-> r.s,
   token |-> Token(keywords_get_or_identifier(Tail(r.identifier)),
                   Tail(r.identifier), s.line, s.column)]

\* read_identifier looking at its lexeme without consuming it
read_identifier_stuck(s) ==
  LET r == read_identifier_loop(s, <<>>) IN
  [s |-> s,
   token |-> Token(keywords_get_or_identifier(r.identifier), r.identifier,
                   s.line, s.column)]

read_identifier(s) ==
  LET r == read_identifier_loop(s, <<>>) IN
  [s |-> r.s,
   token |-> Token(keywords_get_or_identifier(r.identifier), r.identifier,
                   s.line, s.column)]

\* the escape table with \t decoded to the letter t
escape_mut(escaped) ==
  CASE escaped = "n"  -> Some("\n")
    [] escaped = "t"  -> Some("t")
    [] escaped = "r"  -> Some("\r")
    [] escaped = "\\" -> Some("\\")
    [] escaped = "\"" -> Some("\"")
    [] OTHER          -> None

\* the match on the character after a backslash: Some(pushed) or None
escape(escaped) ==
  CASE escaped = "n"  -> Some("\n")
    [] escaped = "t"  -> Some("\t")
    [] escaped = "r"  -> Some("\r")
    [] escaped = "\\" -> Some("\\")
    [] escaped = "\"" -> Some("\"")
    [] OTHER          -> None

\* the while loop of read_string; start is the cursor at the opening quote
RECURSIVE read_string_loop(_, _, _)
read_string_loop(s, string, start) ==
  LET cur == current_char(s) IN
  IF cur = None
  THEN [s |-> s, res |-> Err(<<"Unterminated string literal">>)]
  ELSE IF cur[1] = "\""
  THEN [s |-> advance(s),
        res |-> Ok(Token("String", string, start.line, start.column))]
  ELSE IF cur[1] = "\\"
  THEN LET s1 == advance(s)
           escaped == current_char(s1)
       IN IF escaped = None
          THEN [s |-> s1,
                res |-> Err(<<"Unexpected end of input in escape sequence">>)]
          ELSE IF escape(escaped[1]) = None
          THEN [s |-> s1,
                res |-> Err(<<"Invalid escape sequence: \\", escaped[1]>>)]
          ELSE read_string_loop(advance(s1),
                                Append(string, escape(escaped[1])[1]), start)
  ELSE read_string_loop(advance(s), Append(string, cur[1]), start)

\* read_string returning the buffer as a String token at end-of-input
read_string_lenient(s) ==
  LET r == read_string_loop(advance(s), <<>>, s) IN
  IF ~r.res.ok /\ r.res.error = <<"Unterminated string literal">>
  THEN [s |-> r.s, res |-> Ok(Token("String", <<>>, s.line, s.column))]
  ELSE r

\* read_string without the else branch of the escape: a backslash at
\* end-of-input falls out of the loop
read_string_no_else(s) ==
  LET r == read_string_loop(advance(s), <<>>, s) IN
  IF ~r.res.ok /\ r.res.error = <<"Unexpected end of input in escape sequence">>
  THEN [s |-> r.s, res |-> Err(<<"Unterminated string literal">>)]
  ELSE r

read_string(s) == read_string_loop(advance(s), <<>>, s)

RECURSIVE read_comment(_)
read_comment(s) ==
  LET cur == current_char(s) IN
  IF cur = None \/ cur[1] = "\n" THEN s ELSE read_comment(advance(s))

\* the arms with the kinds of the two braces exchanged
SingleChar_mut ==
  { <<"+", "Plus">>, <<"-", "Minus">>, <<"*", "Multiply">>,
    <<"%", "Modulo">>, <<"=", "Assign">>, <<";", "Semicolon">>,
    <<",", "Comma">>, <<".", "Dot">>, <<"(", "LeftParen">>,
    <<")", "RightParen">>, <<"{", "RightBrace">>, <<"}", "LeftBrace">>,
    <<"[", "LeftBracket">>, <<"]", "RightBracket">> }

\* the arms of next_token that advance once and return a fixed token
SingleChar ==
  { <<"+", "Plus">>, <<"-", "Minus">>, <<"*", "Multiply">>,
    <<"%", "Modulo">>, <<"=", "Assign">>, <<";", "Semicolon">>,
    <<",", "Comma">>, <<".", "Dot">>, <<"(", "LeftParen">>,
    <<")", "RightParen">>, <<"{", "LeftBrace">>, <<"}", "RightBrace">>,
    <<"[", "LeftBracket">>, <<"]", "RightBracket">> }

(***************************************************************************)
(* next_token.  Besides the cursor s and the Result res, the record        *)
(* carries start: the offset at which the call that built res dispatched   *)
(* (the innermost call when a comment made next_token call itself).        *)
(***************************************************************************)
RECURSIVE next_token(_)
next_token(s0) ==
  LET s == skip_whitespace(s0)
      cur == current_char(s)
  IN
  IF cur = None
  THEN [s |-> s, res |-> Ok(Token("EOF", <<>>, s.line, s.column)),
        start |-> s.position]
  ELSE LET current == cur[1] IN
  IF current \in AsciiDigits
  THEN LET r == read_number(s) IN
       [s |-> r.s, res |-> Ok(r.token), start |-> s.position]
  ELSE IF current = "\""
  THEN LET r == read_string(s) IN
       [s |-> r.s, res |-> r.res, start |-> s.position]
  ELSE IF current \in LowerLetters \cup UpperLetters \cup {"_"}
  THEN LET r == read_identifier(s) IN
       [s |-> r.s, res |-> Ok(r.token), start |-> s.position]
  ELSE IF current = "/"
  THEN LET s1 == advance(s) IN
       IF peek_char(s1) = Some("/")
       THEN next_token(read_comment(s1))
       ELSE [s |-> advance(s1),
             res |-> Ok(Token("Divide", <<"/">>, s.line, s.column)),
             start |-> s.position]
  ELSE IF \E e \in SingleChar : e[1] = current
  THEN [s |-> advance(s),
        res |-> Ok(Token((CHOOSE e \in SingleChar : e[1] = current)[2],
                         <<current>>, s.line, s.column)),
        start |-> s.position]
  ELSE [s |-> s,
        res |-> Err(<<"Unexpected character '", current, "' at line ",
                      s.line, ", column ", s.column>>),
        start |-> s.position]

(***************************************************************************)
(* Inputs.                                                                 *)
(***************************************************************************)
\* characters of the exhaustively enumerated inputs
Alphabet == {"a", "1", "/", "\"", "\\", "\n", " ", "#"}

RECURSIVE SeqsUpTo(_, _)
SeqsUpTo(S, n) ==
  IF n = 0 THEN {<<>>}
  ELSE LET shorter == SeqsUpTo(S, n - 1) IN
       shorter \cup {Append(q, ch) : q \in {p \in shorter : Len(p) = n - 1}, ch \in S}

\* pieces of the fragment inputs: the reserved words, near misses of them,
\* and one character of each class the dispatch distinguishes
Fragments ==
  { <<"l","e","t">>, <<"p","r","i","n","t">>, <<"i","f">>,
    <<"e","l","s","e">>, <<"w","h","i","l","e">>, <<"f","o","r">>,
    <<"f","u","n","c","t","i","o","n">>, <<"r","e","t","u","r","n">>,
    <<"L","e","t">>, <<"l","e","t"," ">>, <<"l","e","t","_">>, <<"x">>, <<"_">>, <<"7">>,
    <<".">>, <<"1",".","2">>, <<".","3",";">>, <<"é">>,
    <<" ">>, <<"\t">>, <<"\r">>, <<"\n">>, <<"/">>, <<"+">>, <<"(">>,
    <<";">>, <<"@">>, <<"\"">>, <<"\"","\"">>,
    <<"\"","a","\\","t","b","\"">>, <<"\"","\\","r","\\","n","\"">>,
    <<"\"","\\","q">> }

RECURSIVE Flatten(_)
Flatten(fs) == IF fs = <<>> THEN <<>> ELSE Head(fs) \o Flatten(Tail(fs))

FragmentInputs ==
  UNION { {Flatten(fs) : fs \in [1..n -> Fragments]} : n \in 0..MaxFrags }

\* the end-to-end scenarios S1..S6 of the specification
S1 == <<"l","e","t"," ","x"," ","="," ","3",";">>
S2 == <<"/","/"," ","h","i","\n","l","e","t"," ","a","=","1",";">>
S3 == <<"\"","H","e","l","l","o",",","\\","n"," ","W","o","r","l","d","!","\"">>
S4 == <<"p","r","i","n","t","(","h","e","y",")",";">>
S5 == <<"a"," ","+"," ","b"," ","*"," ","(","c"," ","-"," ","d",")"," ","%"," ","2">>
S6 == <<"\"","o","o","p","s">>

Scenarios == {S1, S2, S3, S4, S5, S6}

\* one input holding every operator and delimiter of next_token's arms
Operators ==
  <<"+","-","*","%","=",";",",",".","(",")","{","}","[","]","/"," ","/">>

Inputs ==
  SeqsUpTo(Alphabet, MaxLen) \cup FragmentInputs \cup Scenarios \cup {Operators}

(***************************************************************************)
(* The program: Lexer::new(input) followed by tokenize().                  *)
(***************************************************************************)
Running == [state |-> "running"]

Init ==
  /\ input \in Inputs
  /\ position = 0
  /\ line = 1
  /\ column = 1
  /\ tokens = <<>>
  /\ result = Running
  /\ history = <<>>
  /\ stdout = <<>>
  /\ stderr = <<>>
  /\ exit_code = None
  /\ frame = [pc |-> "next_token", buffer |-> <<>>,
              start_line |-> 1, start_column |-> 1]

cursor == [position |-> position, line |-> line, column |-> column]

\* what one call of next_token adds to the history of calls
Call(r) ==
  [pre |-> position, first |-> skip_whitespace(cursor).position,
   start |-> r.start, post |-> r.s.position, res |-> r.res,
   pre_line |-> line, pre_column |-> column,
   post_line |-> r.s.line, post_column |-> r.s.column]

SetCursor(s) ==
  /\ position' = s.position
  /\ line' = s.line
  /\ column' = s.column

\* one turn of the loop: next_token returns a token that is not EOF
TokenizePush ==
  /\ result = Running
  /\ LET r == next_token(cursor) IN
     /\ r.res.ok
     /\ r.res.token.token_type # "EOF"
     /\ SetCursor(r.s)
     /\ tokens' = Append(tokens, r.res.token)
     /\ history' = Append(history, Call(r))
  /\ UNCHANGED <<input, result, stdout, stderr, exit_code, frame>>

\* (variant: the loop breaks before the push)
TokenizeEof_mut ==
  /\ result = Running
  /\ LET r == next_token(cursor) IN
     /\ r.res.ok
     /\ r.res.token.token_type = "EOF"
     /\ SetCursor(r.s)
     /\ tokens' = <<>>
     /\ result' = [state |-> "Ok", tokens |-> tokens]
     /\ history' = Append(history, Call(r))
  /\ UNCHANGED <<input, stdout, stderr, exit_code, frame>>

\* the last turn: next_token returns EOF, it is pushed, the loop breaks
\* and tokenize returns Ok(tokens)
TokenizeEof ==
  /\ result = Running
  /\ LET r == next_token(cursor) IN
     /\ r.res.ok
     /\ r.res.token.token_type = "EOF"
     /\ SetCursor(r.s)
     /\ tokens' = <<>>
     /\ result' = [state |-> "Ok", tokens |-> Append(tokens, r.res.token)]
     /\ history' = Append(history, Call(r))
  /\ UNCHANGED <<input, stdout, stderr, exit_code, frame>>

\* (variant: the error is swallowed, the offending character skipped and
\* the loop goes on)
TokenizeErr_mut ==
  /\ result = Running
  /\ LET r == next_token(cursor) IN
     /\ ~r.res.ok
     /\ SetCursor(advance(r.s))
     /\ history' = Append(history, Call(r))
  /\ UNCHANGED <<input, tokens, result, stdout, stderr, exit_code, frame>>

\* next_token()? returns the error: tokens is dropped
TokenizeErr ==
  /\ result = Running
  /\ LET r == next_token(cursor) IN
     /\ ~r.res.ok
     /\ SetCursor(r.s)
     /\ tokens' = <<>>
     /\ result' = [state |-> "Err", error |-> r.res.error]
     /\ history' = Append(history, Call(r))
  /\ UNCHANGED <<input, stdout, stderr, exit_code, frame>>

\* println!("  {:?} '{}' at line {}, column {}", ...): the pieces of the line
TokenLine(t) ==
  <<"  ", t.token_type, " '", t.value, "' at line ", t.line,
    ", column ", t.column>>

\* main's Ok arm: the header and one line per token, in order; main then
\* returns unit, which ends the process with status 0
MainOk ==
  /\ exit_code = None
  /\ result.state = "Ok"
  /\ stdout' = <<<<"Tokens:">>>> \o
                 [i \in 1..Len(result.tokens) |-> TokenLine(result.tokens[i])]
  /\ exit_code' = Some(0)
  /\ UNCHANGED <<input, position, line, column, tokens, result, history,
                 stderr, frame>>

\* main's Err arm: eprintln!("Lexer error: {}", error); main then returns
\* unit as in the Ok arm, which ends the process with status 0
MainErr ==
  /\ exit_code = None
  /\ result.state = "Err"
  /\ stderr' = <<<<"Lexer error: ">> \o result.error>>
  /\ exit_code' = Some(0)
  /\ UNCHANGED <<input, position, line, column, tokens, result, history,
                 stdout, frame>>

Next == TokenizePush \/ TokenizeEof \/ TokenizeErr \/ MainOk \/ MainErr

Spec == Init /\ [][Next]_vars

(***************************************************************************)
(* The Lexer driven method by method.                                      *)
(***************************************************************************)
\* one call of advance, from any cursor advance can have produced; the
\* callers stop calling it at most one place past the end of the input
Advance ==
  /\ position <= Len(input)
  /\ SetCursor(advance(cursor))
  /\ UNCHANGED <<input, tokens, result, history, stdout, stderr, exit_code, frame>>

SpecAdvance == Init /\ [][Advance]_vars

\* one call of next_token by a caller that keeps calling, also after EOF
\* or an error
NextTokenCall ==
  /\ Cardinality({i \in 1..Len(history) :
                    history[i].post = history[i].pre}) < MaxRepeat
  /\ LET r == next_token(cursor) IN
     /\ SetCursor(r.s)
     /\ history' = Append(history, Call(r))
  /\ UNCHANGED <<input, tokens, result, stdout, stderr, exit_code, frame>>

SpecNextToken == Init /\ [][NextTokenCall]_vars

(***************************************************************************)
(* tokenize one loop turn at a time: an action is one turn of a while      *)
(* loop of the lexer or the match of next_token.  frame.pc names the loop  *)
(* that runs; the call next_token makes to itself after a comment is its   *)
(* last expression, so its result is the caller's result.                  *)
(***************************************************************************)
\* tokenize as one function: the loop around next_token
RECURSIVE tokenize(_, _)
tokenize(s, ts) ==
  LET r == next_token(s) IN
  IF ~r.res.ok THEN [state |-> "Err", error |-> r.res.error]
  ELSE IF r.res.token.token_type = "EOF"
  THEN [state |-> "Ok", tokens |-> Append(ts, r.res.token)]
  ELSE tokenize(r.s, Append(ts, r.res.token))

\* next_token returns Ok(token) with the cursor at s: tokenize pushes the
\* token, and at EOF breaks and returns
Return(token, s) ==
  /\ SetCursor(s)
  /\ IF token.token_type = "EOF"
     THEN /\ tokens' = <<>>
          /\ result' = [state |-> "Ok", tokens |-> Append(tokens, token)]
          /\ frame' = [frame EXCEPT !.pc = "done", !.buffer = <<>>]
     ELSE /\ tokens' = Append(tokens, token)
          /\ result' = result
          /\ frame' = [frame EXCEPT !.pc = "next_token", !.buffer = <<>>]

\* next_token returns Err(error) with the cursor at s: tokenize returns it
Fail(error, s) ==
  /\ SetCursor(s)
  /\ tokens' = <<>>
  /\ result' = [state |-> "Err", error |-> error]
  /\ frame' = [frame EXCEPT !.pc = "done", !.buffer = <<>>]

\* control moves to pc with the cursor at s and the reader's buffer
Goto(pc, buffer, s) ==
  /\ SetCursor(s)
  /\ frame' = [frame EXCEPT !.pc = pc, !.buffer = buffer]
  /\ UNCHANGED <<tokens, result>>

\* a reader starts at s: start_line and start_column are taken from the
\* cursor the match looked at
Begin(pc, s) ==
  /\ SetCursor(s)
  /\ frame' = [pc |-> pc, buffer |-> <<>>,
               start_line |-> line, start_column |-> column]
  /\ UNCHANGED <<tokens, result>>

\* one turn of the loop of skip_whitespace
SkipStep ==
  /\ frame.pc = "next_token"
  /\ LET cur == current_char(cursor) IN
     /\ cur # None
     /\ is_whitespace(cur[1])
     /\ Goto("next_token", <<>>, advance(cursor))
  /\ UNCHANGED <<input, history, stdout, stderr, exit_code>>

\* skip_whitespace has left its loop: the match of next_token
DispatchStep ==
  /\ frame.pc = "next_token"
  /\ LET cur == current_char(cursor) IN
     /\ ~(cur # None /\ is_whitespace(cur[1]))
     /\ IF cur = None
        THEN Return(Token("EOF", <<>>, line, column), cursor)
        ELSE IF cur[1] \in AsciiDigits
        THEN Begin("read_number", cursor)
        ELSE IF cur[1] = "\""
        THEN Begin("read_string", advance(cursor))
        ELSE IF cur[1] \in LowerLetters \cup UpperLetters \cup {"_"}
        THEN Begin("read_identifier", cursor)
        ELSE IF cur[1] = "/"
        THEN IF peek_char(advance(cursor)) = Some("/")
             THEN Begin("read_comment", advance(cursor))
             ELSE Return(Token("Divide", <<"/">>, line, column),
                         advance(advance(cursor)))
        ELSE IF \E e \in SingleChar : e[1] = cur[1]
        THEN Return(Token((CHOOSE e \in SingleChar : e[1] = cur[1])[2],
                          <<cur[1]>>, line, column),
                    advance(cursor))
        ELSE Fail(<<"Unexpected character '", cur[1], "' at line ", line,
                    ", column ", column>>, cursor)
  /\ UNCHANGED <<input, history, stdout, stderr, exit_code>>

\* one turn of the loop of read_number, or its end
NumberStep ==
  /\ frame.pc = "read_number"
  /\ LET cur == current_char(cursor) IN
     IF cur # None /\ (is_ascii_digit(cur[1]) \/ cur[1] = ".")
     THEN Goto("read_number", Append(frame.buffer, cur[1]), advance(cursor))
     ELSE Return(Token("Number", frame.buffer,
                       frame.start_line, frame.start_column), cursor)
  /\ UNCHANGED <<input, history, stdout, stderr, exit_code>>

\* one turn of the loop of read_identifier, or the keyword lookup
IdentifierStep ==
  /\ frame.pc = "read_identifier"
  /\ LET cur == current_char(cursor) IN
     IF cur # None /\ (is_alphanumeric(cur[1]) \/ cur[1] = "_")
     THEN Goto("read_identifier", Append(frame.buffer, cur[1]),
               advance(cursor))
     ELSE Return(Token(keywords_get_or_identifier(frame.buffer), frame.buffer,
                       frame.start_line, frame.start_column), cursor)
  /\ UNCHANGED <<input, history, stdout, stderr, exit_code>>

\* one turn of the loop of read_string, or the error after it
StringStep ==
  /\ frame.pc = "read_string"
  /\ LET cur == current_char(cursor)
         s1 == advance(cursor)
         escaped == current_char(s1)
     IN
     IF cur = None
     THEN Fail(<<"Unterminated string literal">>, cursor)
     ELSE IF cur[1] = "\""
     THEN Return(Token("String", frame.buffer,
                       frame.start_line, frame.start_column), s1)
     ELSE IF cur[1] = "\\"
     THEN IF escaped = None
          THEN Fail(<<"Unexpected end of input in escape sequence">>, s1)
          ELSE IF escape(escaped[1]) = None
          THEN Fail(<<"Invalid escape sequence: \\", escaped[1]>>, s1)
          ELSE Goto("read_string",
                    Append(frame.buffer, escape(escaped[1])[1]), advance(s1))
     ELSE Goto("read_string", Append(frame.buffer, cur[1]), s1)
  /\ UNCHANGED <<input, history, stdout, stderr, exit_code>>

\* (variant: the loop of read_comment without its advance)
CommentStep_mut ==
  /\ frame.pc = "read_comment"
  /\ LET cur == current_char(cursor) IN
     IF cur = None \/ cur[1] = "\n"
     THEN Goto("next_token", <<>>, cursor)
     ELSE Goto("read_comment", <<>>, cursor)
  /\ UNCHANGED <<input, history, stdout, stderr, exit_code>>

\* one turn of the loop of read_comment, or its end and the call
\* next_token makes to itself
CommentStep ==
  /\ frame.pc = "read_comment"
  /\ LET cur == current_char(cursor) IN
     IF cur = None \/ cur[1] = "\n"
     THEN Goto("next_token", <<>>, cursor)
     ELSE Goto("read_comment", <<>>, advance(cursor))
  /\ UNCHANGED <<input, history, stdout, stderr, exit_code>>

NextStep ==
  \/ SkipStep \/ DispatchStep \/ NumberStep
  \/ IdentifierStep \/ StringStep \/ CommentStep

\* the code is sequential: a turn that can be taken is taken
SpecSteps == Init /\ [][NextStep]_vars /\ WF_vars(NextStep)

(***************************************************************************)
(* Vocabulary of the properties.                                           *)
(***************************************************************************)
\* the calls of next_token made so far
Calls == {history[i] : i \in 1..Len(history)}

Min(S) == CHOOSE x \in S : \A y \in S : x <= y
Max(S) == CHOOSE x \in S : \A y \in S : x >= y

\* 1-based line and column of the character at 0-based offset off, counted
\* on the input text itself
LineOf(off) == 1 + Cardinality({k \in 1..off : input[k] = "\n"})
ColOf(off) == off + 1 - Max({0} \cup {k \in 1..off : input[k] = "\n"})

KindsOf(ts) == [i \in 1..Len(ts) |-> ts[i].token_type]

\* C1: when tokenize returns Ok, the sequence is non-empty, its last token
\* is EOF with empty value, and no other token is EOF
C1_EndsInOneEOF ==
  result.state = "Ok" =>
    LET ts == result.tokens IN
    /\ Len(ts) >= 1
    /\ ts[Len(ts)].token_type = "EOF"
    /\ ts[Len(ts)].value = <<>>
    /\ \A i \in 1..(Len(ts) - 1) : ts[i].token_type # "EOF"

C1_Witness ==
  /\ result.state = "Ok"
  /\ Len(result.tokens) >= 3
  /\ result.tokens[Len(result.tokens)].token_type = "EOF"

\* first offset at or after off holding a line feed, or end-of-input
LineEnd(off) ==
  Min({Len(input)} \cup {k - 1 : k \in {j \in (off + 1)..Len(input) : input[j] = "\n"}})

\* a call of next_token whose dispatch is at the first slash of "//"
AtComment(h) ==
  /\ h.first + 2 <= Len(input)
  /\ input[h.first + 1] = "/"
  /\ input[h.first + 2] = "/"

\* C2: a call of next_token that starts at "//" consumes through to the
\* next line feed or end-of-input without a token and returns the first
\* token after the comment; "// hi\nlet a=1;" yields Let at line 2 column 1,
\* Identifier, Assign, Number, Semicolon, EOF
C2_CommentSkipped ==
  /\ \A h \in Calls :
       (AtComment(h) /\ h.res.ok) => h.start >= LineEnd(h.first)
  /\ (input = S2 /\ result.state # "running") =>
       /\ result.state = "Ok"
       /\ KindsOf(result.tokens) =
            <<"Let", "Identifier", "Assign", "Number", "Semicolon", "EOF">>
       /\ result.tokens[1].line = 2
       /\ result.tokens[1].column = 1

\* C3: every returned token carries the 1-based line and column of the
\* first character of its lexeme (the opening quote of a String, the
\* end-of-input position for EOF), lines being delimited by "\n" only
C3_TokenPosition ==
  \A h \in Calls : h.res.ok =>
    LET t == h.res.token
        off == IF t.token_type = "EOF" THEN Len(input) ELSE h.start
    IN /\ t.line = LineOf(off)
       /\ t.column = ColOf(off)
       /\ t.token_type # "EOF" =>
            /\ h.start < Len(input)
            /\ input[h.start + 1] =
                 (IF t.token_type = "String" THEN "\"" ELSE t.value[1])

\* a token on a later line, not in its first column, after another token
C3_Witness ==
  \E h \in Calls :
    /\ h.res.ok
    /\ h.res.token.token_type # "EOF"
    /\ h.res.token.line >= 2
    /\ h.res.token.column >= 2
    /\ Len(history) >= 2

\* C4 as stated: every token other than EOF has a non-empty value
C4_NonEmptyValue ==
  \A h \in Calls :
    (h.res.ok /\ h.res.token.token_type # "EOF") => h.res.token.value # <<>>

\* C4 amended: every token other than EOF and String has a non-empty
\* value, and a String token has an empty value exactly when its closing
\* quote directly follows its opening quote
C4_NonEmptyValueExceptString ==
  \A h \in Calls : h.res.ok =>
    LET t == h.res.token IN
    /\ t.token_type \notin {"EOF", "String"} => t.value # <<>>
    /\ t.token_type = "String" =>
         (t.value = <<>> <=> input[h.start + 2] = "\"")

C4_Witness ==
  /\ \E h \in Calls : h.res.ok /\ h.res.token.token_type = "String"
                        /\ h.res.token.value = <<>>
  /\ \E h \in Calls : h.res.ok /\ h.res.token.token_type = "Identifier"
                        /\ h.res.token.value # <<>>

(***************************************************************************)
(* The lexical structure the specification describes, read off the input   *)
(* text: string literals, comments, and the characters no rule accepts.    *)
(***************************************************************************)
ValidEscapes == {"n", "t", "r", "\\", "\""}

\* number of consecutive backslashes that end just before index k and lie
\* after the opening quote at index q (indices are 1-based)
BackslashRun(q, k) ==
  Max({0} \cup {j \in 1..(k - q - 1) :
                  \A m \in (k - j)..(k - 1) : input[m] = "\\"})

\* the character at k is the second character of an escape
Escaped(q, k) == BackslashRun(q, k) % 2 = 1

\* the unescaped double quotes after the opening quote at q
Closers(q) == {k \in (q + 1)..Len(input) : input[k] = "\"" /\ ~Escaped(q, k)}

\* last index of the body of the literal opened at q: just before its
\* closing quote, or the end of the input
BodyEnd(q) == IF Closers(q) = {} THEN Len(input) ELSE Min(Closers(q)) - 1

\* the backslashes of the body that open an escape with no valid second
\* character
BadEscapes(q) ==
  {k \in (q + 1)..BodyEnd(q) :
     /\ input[k] = "\\"
     /\ ~Escaped(q, k)
     /\ (k = Len(input) \/ input[k + 1] \notin ValidEscapes)}

\* a call whose result was built by the dispatch on a double quote
AtQuote(h) == h.start < Len(input) /\ input[h.start + 1] = "\""

Unescape(ch) ==
  CASE ch = "n" -> "\n" [] ch = "t" -> "\t" [] ch = "r" -> "\r"
    [] ch = "\\" -> "\\" [] ch = "\"" -> "\""

\* the text a well-formed body denotes
RECURSIVE Decode(_)
Decode(body) ==
  IF body = <<>> THEN <<>>
  ELSE IF Head(body) = "\\"
  THEN <<Unescape(body[2])>> \o Decode(SubSeq(body, 3, Len(body)))
  ELSE <<Head(body)>> \o Decode(Tail(body))

\* characters some dispatch rule accepts outside literals and comments
Accepted ==
  {" ", "\t", "\n", "\r", "_", "\"", "/"} \cup AsciiDigits \cup LowerLetters
    \cup UpperLetters \cup {e[1] : e \in SingleChar}

\* 0-based offset of the first character at or after off that lies outside
\* string literals and comments and is not Accepted; -1 when there is none
\* or when a malformed literal or a character outside ASCII comes first
RECURSIVE FirstUnexpected(_)
FirstUnexpected(off) ==
  IF off >= Len(input) THEN -1
  ELSE LET ch == input[off + 1] IN
  IF ch = "\""
  THEN IF Closers(off + 1) = {} \/ BadEscapes(off + 1) # {}
       THEN -1
       ELSE FirstUnexpected(Min(Closers(off + 1)))
  ELSE IF ch = "/" /\ off + 2 <= Len(input) /\ input[off + 2] = "/"
  THEN FirstUnexpected(LineEnd(off))
  ELSE IF ch \in NonAsciiAlphanumeric THEN -1
  ELSE IF ch \in Accepted THEN FirstUnexpected(off + 1)
  ELSE off

\* C5: an input with a character that is outside literals and comments and
\* that no rule accepts, and with no earlier lexical error, makes tokenize
\* fail with UnexpectedCharacter carrying the first such character and its
\* 1-based line and column
C5_UnexpectedCharacter ==
  LET bad == FirstUnexpected(0) IN
  (bad >= 0 /\ result.state # "running") =>
    /\ result.state = "Err"
    /\ Len(result.error) = 6
    /\ result.error = <<"Unexpected character '", input[bad + 1],
                        "' at line ", LineOf(bad), ", column ", ColOf(bad)>>

\* C6: a call that starts at a double quote, with no unescaped closing
\* quote up to end-of-input and every backslash followed by a valid escape
\* character, fails with UnterminatedString, and tokenize returns that
\* error and no tokens
C6_UnterminatedString ==
  \A h \in Calls :
    (AtQuote(h) /\ Closers(h.start + 1) = {} /\ BadEscapes(h.start + 1) = {}) =>
      /\ ~h.res.ok
      /\ h.res.error = <<"Unterminated string literal">>
      /\ result = [state |-> "Err", error |-> <<"Unterminated string literal">>]
      /\ tokens = <<>>

\* an unterminated literal with a valid escape in it, after another token
C6_Witness ==
  \E h \in Calls :
    /\ AtQuote(h) /\ Closers(h.start + 1) = {} /\ BadEscapes(h.start + 1) = {}
    /\ \E k \in (h.start + 2)..Len(input) : input[k] = "\\"
    /\ h.start > 0
    /\ result.state = "Err"

\* C7: in a string literal a backslash followed by a character other than
\* n, t, r, backslash, double quote fails with InvalidEscape naming that
\* character; a backslash that ends the input fails with UnterminatedEscape
C7_InvalidEscape ==
  \A h \in Calls :
    (AtQuote(h) /\ BadEscapes(h.start + 1) # {}) =>
      LET k == Min(BadEscapes(h.start + 1)) IN
      /\ ~h.res.ok
      /\ k = Len(input) =>
           h.res.error = <<"Unexpected end of input in escape sequence">>
      /\ k < Len(input) =>
           /\ Len(h.res.error) = 2
           /\ h.res.error = <<"Invalid escape sequence: \\", input[k + 1]>>

\* both errors, each after a valid escape
C7_WitnessInvalid ==
  \E h \in Calls :
    /\ AtQuote(h) /\ BadEscapes(h.start + 1) # {}
    /\ Min(BadEscapes(h.start + 1)) < Len(input)
    /\ Min(BadEscapes(h.start + 1)) > h.start + 2

C7_Witness ==
  \E h \in Calls :
    /\ AtQuote(h) /\ BadEscapes(h.start + 1) # {}
    /\ Min(BadEscapes(h.start + 1)) = Len(input)
    /\ Len(input) > h.start + 2

\* C8: a call that starts at a well-formed string literal returns one
\* String token whose value is the body with each escape replaced by the
\* character it denotes, without the quotes
C8_StringDecoded ==
  \A h \in Calls :
    (AtQuote(h) /\ Closers(h.start + 1) # {} /\ BadEscapes(h.start + 1) = {}) =>
      /\ h.res.ok
      /\ h.res.token.token_type = "String"
      /\ h.res.token.value =
           Decode(SubSeq(input, h.start + 2, BodyEnd(h.start + 1)))
      /\ h.post = BodyEnd(h.start + 1) + 1

\* a literal with the escape \t between plain characters
C8_Witness ==
  \E h \in Calls :
    /\ AtQuote(h) /\ Closers(h.start + 1) # {} /\ BadEscapes(h.start + 1) = {}
    /\ h.res.ok
    /\ Len(h.res.token.value) = 3
    /\ h.res.token.value[2] = "\t"

\* C9: tokenize returns Err with the diagnostic of the first call of
\* next_token that fails, calls next_token no more after it, and returns
\* none of the tokens produced before
C9_FirstErrorAborts ==
  /\ \A i \in 1..Len(history) :
       ~history[i].res.ok =>
         /\ i = Len(history)
         /\ result = [state |-> "Err", error |-> history[i].res.error]
         /\ tokens = <<>>
  /\ result.state = "Err" =>
       /\ history # <<>>
       /\ ~history[Len(history)].res.ok

\* an error after two tokens
C9_Witness ==
  /\ result.state = "Err"
  /\ Len(history) >= 3

KeywordKinds ==
  {"Let", "Print", "If", "Else", "While", "For", "Function", "Return"}

\* the reserved word of each keyword kind (section 6 of the specification)
ReservedWord(kind) ==
  CASE kind = "Let"      -> <<"l","e","t">>
    [] kind = "Print"    -> <<"p","r","i","n","t">>
    [] kind = "If"       -> <<"i","f">>
    [] kind = "Else"     -> <<"e","l","s","e">>
    [] kind = "While"    -> <<"w","h","i","l","e">>
    [] kind = "For"      -> <<"f","o","r">>
    [] kind = "Function" -> <<"f","u","n","c","t","i","o","n">>
    [] kind = "Return"   -> <<"r","e","t","u","r","n">>

\* a call whose result was built by read_identifier
AtIdentifier(h) ==
  h.start < Len(input) /\ input[h.start + 1] \in LowerLetters \cup UpperLetters \cup {"_"}

\* C10: a token of read_identifier has a keyword kind if and only if its
\* whole lexeme is, case-sensitively, the matching reserved word; every
\* other lexeme has kind Identifier
C10_KeywordExact ==
  \A h \in Calls : AtIdentifier(h) =>
    LET t == h.res.token IN
    /\ h.res.ok
    /\ t.token_type \in KeywordKinds \cup {"Identifier"}
    /\ \A kind \in KeywordKinds :
         t.token_type = kind <=> t.value = ReservedWord(kind)

\* a keyword followed by an identifier that has a reserved word as a
\* proper prefix
C10_Witness ==
  \E i \in 1..Len(history) : \E j \in (i + 1)..Len(history) :
    /\ history[i].res.ok /\ history[j].res.ok
    /\ history[i].res.token.token_type \in KeywordKinds
    /\ history[j].res.token.token_type = "Identifier"
    /\ \E kind \in KeywordKinds :
         LET w == ReservedWord(kind)
             v == history[j].res.token.value
         IN Len(v) > Len(w) /\ SubSeq(v, 1, Len(w)) = w

\* the input is one identifier lexeme: an ASCII letter or "_" followed by
\* ASCII letters, digits and "_"
IsIdentifierLexeme(L) ==
  /\ L # <<>>
  /\ L[1] \in LowerLetters \cup UpperLetters \cup {"_"}
  /\ \A k \in 2..Len(L) :
       L[k] \in LowerLetters \cup UpperLetters \cup AsciiDigits \cup {"_"}

\* C11: tokenize on an identifier lexeme L alone returns exactly two
\* tokens: a keyword or Identifier token with value L at line 1 column 1,
\* then EOF
C11_IdentifierRoundTrip ==
  (IsIdentifierLexeme(input) /\ result.state # "running") =>
    /\ result.state = "Ok"
    /\ Len(result.tokens) = 2
    /\ result.tokens[1].token_type \in KeywordKinds \cup {"Identifier"}
    /\ result.tokens[1].value = input
    /\ result.tokens[1].line = 1
    /\ result.tokens[1].column = 1
    /\ result.tokens[2].token_type = "EOF"

\* a lexeme of letters, a digit or underscore among them
C11_Witness ==
  /\ IsIdentifierLexeme(input)
  /\ Len(input) >= 4
  /\ \E k \in 2..Len(input) : input[k] \in AsciiDigits \cup {"_"}
  /\ result.state = "Ok"

\* a call whose result was built by read_number
AtDigit(h) == h.start < Len(input) /\ input[h.start + 1] \in AsciiDigits

\* last index of the run of digits and dots that holds index q
NumberEnd(q) ==
  Max({k \in q..Len(input) :
         \A m \in q..k : input[m] \in AsciiDigits \cup {"."}})

\* C12: a call that starts at a digit returns one Number token whose value
\* is the maximal run of digits and dots from that digit on, however many
\* dots, and leaves the cursor at the first character after the run
C12_NumberMaximalRun ==
  \A h \in Calls : AtDigit(h) =>
    LET e == NumberEnd(h.start + 1) IN
    /\ h.res.ok
    /\ h.res.token.token_type = "Number"
    /\ h.res.token.value = SubSeq(input, h.start + 1, e)
    /\ h.post = e

\* a Number with two dots, something after it
C12_Witness ==
  \E h \in Calls :
    /\ AtDigit(h) /\ h.res.ok
    /\ Cardinality({k \in 1..Len(h.res.token.value) :
                      h.res.token.value[k] = "."}) >= 2
    /\ h.post < Len(input)

\* the token table of section 6 for the one-character tokens but Divide
TokenTable(ch) ==
  CASE ch = "+" -> "Plus" [] ch = "-" -> "Minus" [] ch = "*" -> "Multiply"
    [] ch = "%" -> "Modulo" [] ch = "=" -> "Assign"
    [] ch = ";" -> "Semicolon" [] ch = "," -> "Comma" [] ch = "." -> "Dot"
    [] ch = "(" -> "LeftParen" [] ch = ")" -> "RightParen"
    [] ch = "{" -> "LeftBrace" [] ch = "}" -> "RightBrace"
    [] ch = "[" -> "LeftBracket" [] ch = "]" -> "RightBracket"

TableChars ==
  {"+", "-", "*", "%", "=", ";", ",", ".", "(", ")", "{", "}", "[", "]"}

\* C13: a call that starts at one of + - * % = ; , . ( ) { } [ ] advances
\* the cursor by exactly one character and returns the token of the kind
\* the token table gives that character, its value that character
C13_SingleCharToken ==
  \A h \in Calls :
    (h.start < Len(input) /\ input[h.start + 1] \in TableChars) =>
      /\ h.res.ok
      /\ h.res.token.token_type = TokenTable(input[h.start + 1])
      /\ h.res.token.value = <<input[h.start + 1]>>
      /\ h.post = h.start + 1

\* every one of the fourteen characters has been tokenized
C13_Witness ==
  \A ch \in TableChars :
    \E h \in Calls : h.start < Len(input) /\ input[h.start + 1] = ch /\ h.res.ok

\* C14: when tokenization fails the process writes the diagnostic to the
\* error stream and ends with a non-zero exit code; when it succeeds it
\* prints the tokens in order and ends with exit code 0
C14_ExitCode ==
  exit_code # None =>
    /\ result.state = "Err" =>
         /\ stderr = <<<<"Lexer error: ">> \o result.error>>
         /\ exit_code[1] # 0
    /\ result.state = "Ok" =>
         /\ Len(stdout) = Len(result.tokens) + 1
         /\ \A i \in 1..Len(result.tokens) :
              /\ stdout[i + 1][2] = result.tokens[i].token_type
              /\ stdout[i + 1][4] = result.tokens[i].value
         /\ exit_code[1] = 0

\* 0-based offset of the first character after the lexeme of the token t
\* whose lexeme starts at offset start
LexemeEnd(t, start) ==
  IF t.token_type = "String" THEN Min(Closers(start + 1))
  ELSE start + Len(t.value)

\* C15: after every call that returns a token T other than EOF the cursor
\* is at the first character after T's lexeme; on a "/" not followed by
\* "/" the call advances exactly once and returns Divide
C15_CursorAfterLexeme ==
  \A h \in Calls :
    /\ (h.res.ok /\ h.res.token.token_type # "EOF") =>
         h.post = LexemeEnd(h.res.token, h.start)
    /\ (/\ h.first < Len(input)
        /\ input[h.first + 1] = "/"
        /\ ~AtComment(h)) =>
         /\ h.res.ok
         /\ h.res.token.token_type = "Divide"
         /\ h.post = h.first + 1

\* C17: over the calls of next_token the cursor offset never decreases,
\* a call that returns a token other than EOF leaves it strictly greater,
\* and no offset is the start of a token in two calls
C17_CursorMonotonic ==
  /\ \A h \in Calls :
       /\ h.pre <= h.post
       /\ (h.res.ok /\ h.res.token.token_type # "EOF") => h.pre < h.post
  /\ \A i \in 1..Len(history) : \A j \in (i + 1)..Len(history) :
       /\ history[i].post <= history[j].pre
       /\ history[i].start < history[j].start
  /\ history # <<>> => position = history[Len(history)].post

\* four calls, one of them through a comment
C17_Witness ==
  /\ Len(history) >= 4
  /\ \E h \in Calls : h.start > h.first

\* C19: the value of every Identifier or keyword token holds only ASCII
\* letters, ASCII digits and "_"
C19_AsciiIdentifiers ==
  \A h \in Calls :
    (h.res.ok /\ h.res.token.token_type \in KeywordKinds \cup {"Identifier"}) =>
      \A k \in 1..Len(h.res.token.value) :
        h.res.token.value[k] \in
          LowerLetters \cup UpperLetters \cup AsciiDigits \cup {"_"}

\* number of characters of the input the cursor has passed
Consumed == Min({position, Len(input)})

\* C16: in every scanner state line >= 1 and column >= 1, line is 1 plus
\* the number of line feeds consumed and column is 1 plus the number of
\* characters consumed since the last consumed line feed (or the start);
\* so only a line feed, not a bare carriage return, changes line
C16_LineColumn ==
  /\ line >= 1
  /\ column >= 1
  /\ line = 1 + Cardinality({k \in 1..Consumed : input[k] = "\n"})
  /\ column = 1 + Consumed - Max({0} \cup {k \in 1..Consumed : input[k] = "\n"})

\* past the end of an input with a line feed and two characters after it
C16_Witness ==
  /\ position > Len(input)
  /\ line >= 2
  /\ column >= 3

\* tokenize has returned: Ok with EOF pushed last, or an error
Terminated ==
  /\ frame.pc = "done"
  /\ \/ /\ result.state = "Ok"
        /\ result.tokens[Len(result.tokens)].token_type = "EOF"
     \/ result.state = "Err"

\* C18: on every input tokenize eventually terminates, with Ok after EOF
\* or with the first lexical error; no loop of the lexer and no call of
\* next_token to itself runs forever
C18_Terminates == <>Terminated

\* returned from an input of two lines whose first is skipped as a comment
C18_Witness ==
  /\ Terminated
  /\ Len(input) >= 4
  /\ input[1] = "/" /\ input[3] = "/"
  /\ \E k \in 4..Len(input) : input[k] = "\n"
  /\ position = Len(input)

\* turn by turn, tokenize returns what it returns as one function of the
\* input, with the cursor where that function leaves it
StepsAgree ==
  frame.pc = "done" =>
    result = tokenize([position |-> 0, line |-> 1, column |-> 1], <<>>)

\* the calls made with the cursor at or past end-of-input
AtEnd == {i \in 1..Len(history) : history[i].pre >= Len(input)}

\* C20: once the cursor is at or past end-of-input every call of
\* next_token returns Ok with an EOF token of empty value at the same
\* line and column and leaves offset, line and column unchanged
C20_EofRepeats ==
  /\ \A i \in AtEnd :
       LET h == history[i] IN
       /\ h.res = Ok(Token("EOF", <<>>, h.pre_line, h.pre_column))
       /\ h.post = h.pre
       /\ h.post_line = h.pre_line
       /\ h.post_column = h.pre_column
  /\ \A i \in AtEnd : \A j \in AtEnd : history[i].res = history[j].res

\* two calls at the end, the cursor one place past the end of the input
C20_Witness ==
  /\ Cardinality(AtEnd) >= 2
  /\ position > Len(input)

====
